---- MODULE Spec2Model ----
(***************************************************************************)
(* El 32 landing scripts (src/js/main.js).                                 *)
(*                                                                         *)
(* Part 1: the ambient light field driver (first IIFE of main.js): a       *)
(* requestAnimationFrame loop, throttled to FRAME_MIN_MS, that writes the  *)
(* drift position/rotation only when it moved by more than an epsilon and  *)
(* is stopped/started by the page lifecycle events.                        *)
(*                                                                         *)
(* Part 2: the party gallery lightbox (sixth IIFE of main.js): index       *)
(* navigation, open/close and the swipe gesture.                           *)
(*                                                                         *)
(* Part 3: the menu controller (second IIFE of main.js): open/close of the *)
(* menu panel with the delayed re-hiding of the panel.                     *)
(*                                                                         *)
(* Units: time in milliseconds; positions in hundredths of a pixel         *)
(* (0.06 px = 6); rotation in thousandths of a degree (0.012 deg = 12).    *)
(***************************************************************************)
EXTENDS Integers, FiniteSets, Sequences, TLC

VARIABLES
  \* ---- ambient driver: capability inputs read once at startup
  prefersReducedMotion,  \* matchMedia("(prefers-reduced-motion: reduce)")
  isMobile,              \* matchMedia("(max-width: 520px)")
  isIOSSafari,           \* platform / userAgent test
  hardwareConcurrency,   \* navigator.hardwareConcurrency (0 = undefined)
  lightfield,            \* document.querySelector(".lightfield") found
  turbulence,            \* document.getElementById("el32-turbulence") found
  \* ---- ambient driver: closure state
  rafId, lastFrame, lastTurb, lastX, lastY, lastR,
  \* ---- ambient driver: browser state it reads and writes
  hidden,                \* document.hidden
  now,                   \* timestamp of the latest animation frame
  nextHandle,            \* next handle requestAnimationFrame returns
  rafPending,            \* handles of the frame callbacks still pending
  lfStyle,               \* --lf-x / --lf-y / --lf-r as last written
  baseFrequency,         \* <<>> until tick sets the attribute, then <<time>>
  \* ---- ambient driver: history (not program state)
  computed,              \* <<>> or <<x, y, rotation>> of the latest update
  prevExec,              \* timestamp of the latest executed update, or NoTime
  restarted,             \* start() reset lastFrame since the latest update
  gap,                   \* time between the latest two executed updates, or NoTime
  gapAcrossStart,        \* start() reset lastFrame between those two updates
  lastCall,              \* how the latest start()/stop() call ended
  lifecycle,             \* latest lifecycle event kind: "show" or "hide"
  \* ---- lightbox: what the script finds at startup
  tiles,                 \* tiles.length, the number of ".gallery-btn img"
  scroller,              \* document.querySelector(".page__scroll") found
  innerWidth,            \* window.innerWidth
  \* ---- lightbox: closure state, the DOM state it writes, pending callbacks
  lbx,
  \* ---- lightbox: browser state
  clock,                 \* performance.now()
  pressed,               \* pointers currently down on the stage
  \* ---- lightbox: history (not program state)
  navHist,               \* index at the latest open, next()/prev() calls since
  \* ---- menu: closure state, the DOM state it writes, pending timers
  menu,
  \* ---- history shared by both parts
  lastEvt,               \* the latest event handled
  lastArgs               \* its inputs, where a claim needs them

capVars == <<prefersReducedMotion, isMobile, isIOSSafari, hardwareConcurrency,
             lightfield, turbulence>>
loopVars == <<rafId, rafPending, nextHandle, lastFrame, lastTurb, restarted, lastCall>>
writeVars == <<lastX, lastY, lastR, lfStyle, baseFrequency, computed, prevExec,
               gap, gapAcrossStart>>
ambientVars == <<capVars, loopVars, writeVars, hidden, now, lifecycle>>
lbEnv == <<tiles, scroller, innerWidth>>
lbVars == <<lbEnv, lbx, clock, pressed, navHist>>

vars == <<ambientVars, lbVars, menu, lastEvt, lastArgs>>

-----------------------------------------------------------------------------
(* Bounds of the model *)

MaxTime == 230
MaxHandle == 7

\* Frame-to-frame time steps (ms): 16+16 < 33 <= 16+17, and a long frame.
FrameSteps == {16, 17, 60}
WriteStep == 40

\* Sample drift positions (hundredths of a px) and rotations (thousandths of a
\* degree): neighbours within and beyond the epsilon of each other.
PosSamples == {0, 6, 7, 13}
RotSamples == {0, 12, 13}

HwSamples == {0, 4, 8}

MaxTiles == 2      \* gallery images, full lightbox runs
MaxNavTiles == 5   \* gallery images, navigation-only runs
MaxCalls == 3      \* next() / prev() calls counted after an open
MaxArg == 12       \* |argument| of setIndex taken on its own
MaxClock == 160    \* performance.now() stops advancing here
MaxTimers == 4     \* setTimeout calls of the menu

Pointers == {1, 2}
Xs == {0, 100}
ClockSteps == {0, 160}
Keys == {"Escape", "ArrowLeft", "ArrowRight", "Tab"}

\* Pointer positions of the swipes with navigation: 400 either way of the
\* middle is past 0.18 * 1000.
CommitXs == {0, 400, 800}

\* Completed drags: viewport widths, drag distances and durations around the
\* thresholds 0.18 * w and 0.65 px/ms.
SwipeWidths == {200, 320, 1000}
SwipeDeltas == {-200, -181, -180, -179, -100, -58, -57, -1, 0, 1,
                36, 37, 40, 57, 58, 65, 66, 100, 179, 180, 181, 200}
SwipeTimes == {0, 1, 2, 88, 89, 100, 101, 151, 153, 154, 250, 276, 280, 1000}

-----------------------------------------------------------------------------
(* Program constants *)

Null == 0
NaN == 0 - 99999
NoTime == 0 - 1

TURB_UPDATE_MS == 160
FRAME_MIN_MS == 33
POS_EPS == 6
ROT_EPS == 12

Abs(v) == IF v < 0 THEN 0 - v ELSE v

lowCoreDevice == (IF hardwareConcurrency = 0 THEN 4 ELSE hardwareConcurrency) <= 4

ultraOK == ~prefersReducedMotion /\ ~isMobile /\ ~isIOSSafari /\ ~lowCoreDevice

AMP_X == IF prefersReducedMotion THEN 8 ELSE (IF isMobile THEN 24 ELSE 56)

AMP_Y == IF prefersReducedMotion THEN 6 ELSE (IF isMobile THEN 16 ELSE 40)

\* Mutant: the `&& !!turbulence` test dropped.
ENABLE_TURBULENCE_noTarget == ultraOK

ENABLE_TURBULENCE == ultraOK /\ turbulence

\* Math.abs(a - b) <= eps; any comparison with NaN is false.
nearlyEqual(a, b, eps) == a # NaN /\ b # NaN /\ Abs(a - b) <= eps

-----------------------------------------------------------------------------
(* start / stop *)

\* Mutant: the handle is forgotten without cancelAnimationFrame.
stop_noCancel ==
  /\ rafId' = Null
  /\ lastCall' = (IF rafId = Null THEN "stop_noop" ELSE "stop")
  /\ UNCHANGED <<rafPending, nextHandle, lastFrame, lastTurb, restarted>>

stop ==
  IF rafId = Null
  THEN /\ lastCall' = "stop_noop"
       /\ UNCHANGED <<rafId, rafPending, nextHandle, lastFrame, lastTurb, restarted>>
  ELSE /\ rafPending' = rafPending \ {rafId}
       /\ rafId' = Null
       /\ lastCall' = "stop"
       /\ UNCHANGED <<nextHandle, lastFrame, lastTurb, restarted>>

\* Mutant: the `if (rafId) return` guard dropped.
start_noGuard ==
  /\ nextHandle <= MaxHandle
  /\ lastFrame' = 0
  /\ lastTurb' = 0
  /\ rafId' = nextHandle
  /\ rafPending' = rafPending \cup {nextHandle}
  /\ nextHandle' = nextHandle + 1
  /\ restarted' = TRUE
  /\ lastCall' = (IF rafId # Null THEN "start_noop" ELSE "start")

start ==
  IF rafId # Null
  THEN /\ lastCall' = "start_noop"
       /\ UNCHANGED <<rafId, rafPending, nextHandle, lastFrame, lastTurb, restarted>>
  ELSE /\ nextHandle <= MaxHandle
       /\ lastFrame' = 0
       /\ lastTurb' = 0
       /\ rafId' = nextHandle
       /\ rafPending' = rafPending \cup {nextHandle}
       /\ nextHandle' = nextHandle + 1
       /\ restarted' = TRUE
       /\ lastCall' = "start"

-----------------------------------------------------------------------------
(* tick *)

\* Mutant: strict comparison dropped (a change of exactly eps is suppressed
\* in the code, written here).
Committed_strict(new, last, eps) ==
  IF new # NaN /\ last # NaN /\ Abs(new - last) < eps THEN last ELSE new

\* The value a channel's cache holds after an update computed `new`.
Committed(new, last, eps) == IF nearlyEqual(new, last, eps) THEN last ELSE new

\* Mutant: the throttle measured from the wrong timestamp.
Throttled_wrongStamp(time) == time - lastTurb < FRAME_MIN_MS

Throttled(time) == time - lastFrame < FRAME_MIN_MS

TurbulenceDue(time) == ENABLE_TURBULENCE /\ time - lastTurb > TURB_UPDATE_MS

\* The frame callback with handle h, run dt ms after the previous frame.
\* x, y, r stand for the values tick's closed-form drift (sums of sines of
\* time) gives at this timestamp; they are inputs here.
Tick(h, dt, x, y, r) ==
  LET time == now + dt IN
  /\ lightfield
  /\ ~hidden            \* browsers run no frame callbacks in a hidden document
  /\ h \in rafPending
  /\ time <= MaxTime
  /\ nextHandle <= MaxHandle
  /\ now' = time
  /\ rafId' = nextHandle
  /\ rafPending' = (rafPending \ {h}) \cup {nextHandle}
  /\ nextHandle' = nextHandle + 1
  /\ IF Throttled(time)
     THEN /\ lastEvt' = "tick_skip"
          /\ UNCHANGED <<lastFrame, lastTurb, restarted, writeVars>>
     ELSE /\ lastEvt' = "tick_run"
          /\ lastFrame' = time
          /\ lastX' = Committed(x, lastX, POS_EPS)
          /\ lastY' = Committed(y, lastY, POS_EPS)
          /\ lastR' = Committed(r, lastR, ROT_EPS)
          /\ lfStyle' = [x |-> Committed(x, lastX, POS_EPS),
                         y |-> Committed(y, lastY, POS_EPS),
                         r |-> Committed(r, lastR, ROT_EPS)]
          /\ IF TurbulenceDue(time)
             THEN lastTurb' = time /\ baseFrequency' = <<time>>
             ELSE UNCHANGED <<lastTurb, baseFrequency>>
          /\ computed' = <<x, y, r>>
          /\ prevExec' = time
          /\ gap' = (IF prevExec = NoTime THEN NoTime ELSE time - prevExec)
          /\ gapAcrossStart' = restarted
          /\ restarted' = FALSE
  /\ lastArgs' = <<>>
  /\ UNCHANGED <<capVars, hidden, lifecycle, lastCall, lbVars, menu>>

-----------------------------------------------------------------------------
(* lifecycle listeners *)

VisibilityChange ==
  /\ lightfield
  /\ hidden' = ~hidden
  /\ IF hidden' THEN stop ELSE start
  /\ lifecycle' = IF hidden' THEN "hide" ELSE "show"
  /\ lastEvt' = "visibilitychange"
  /\ lastArgs' = <<>>
  /\ UNCHANGED <<capVars, writeVars, now, lbVars, menu>>

PageHide ==
  /\ lightfield
  /\ stop
  /\ lifecycle' = "hide"
  /\ lastEvt' = "pagehide"
  /\ lastArgs' = <<>>
  /\ UNCHANGED <<capVars, writeVars, now, hidden, lbVars, menu>>

PageShow ==
  /\ lightfield
  /\ start
  /\ lifecycle' = "show"
  /\ lastEvt' = "pageshow"
  /\ lastArgs' = <<>>
  /\ UNCHANGED <<capVars, writeVars, now, hidden, lbVars, menu>>

-----------------------------------------------------------------------------
(* Menu                                                                    *)
(*                                                                         *)
(* menu is a record: the closure variables isOpen and hideTimer (Null or   *)
(* the handle setTimeout returned); the DOM state the handlers write:      *)
(* panelHidden (panel.hidden), dataOpen (root.dataset.open), ariaExpanded  *)
(* (the toggle's aria-expanded), ariaHidden (the panel's aria-hidden),     *)
(* menuOpenClass (documentElement has class menu-open), focus; and the     *)
(* browser's timers: timers (handles of the pending hide callbacks) and    *)
(* nextTimer (the handle the next setTimeout returns).                     *)
(* The root, the toggle and the panel are taken to exist.                  *)

setPerfMode(m, on) == [m EXCEPT !.menuOpenClass = on]

setState(m, open_) ==
  [m EXCEPT !.isOpen = open_,
            !.dataOpen = IF open_ THEN "true" ELSE "false",
            !.ariaExpanded = IF open_ THEN "true" ELSE "false",
            !.ariaHidden = IF open_ THEN "false" ELSE "true"]

\* Mutant: the pending hide timer is not cancelled.
openMenu_noClear(m) ==
  IF m.isOpen THEN m
  ELSE [setState([setPerfMode(m, TRUE) EXCEPT !.panelHidden = FALSE], TRUE)
          EXCEPT !.focus = "firstLink"]

openMenu(m) ==
  IF m.isOpen THEN m
  ELSE LET m1 == [setPerfMode(m, TRUE) EXCEPT !.panelHidden = FALSE]
           m2 == IF m1.hideTimer # Null
                 THEN [m1 EXCEPT !.timers = @ \ {m1.hideTimer},
                                 !.hideTimer = Null]
                 ELSE m1
       IN [setState(m2, TRUE) EXCEPT !.focus = "firstLink"]

closeMenu(m) ==
  IF ~m.isOpen THEN m
  ELSE [setPerfMode(setState(m, FALSE), FALSE)
          EXCEPT !.hideTimer = m.nextTimer,
                 !.timers = @ \cup {m.nextTimer},
                 !.nextTimer = @ + 1,
                 !.focus = "toggle"]

\* The callback closeMenu hands to setTimeout.
hideCallback(m) == IF ~m.isOpen THEN [m EXCEPT !.panelHidden = TRUE] ELSE m

\* setTimeout has handles left to give (the model's bound on closeMenu calls).
CanClose == ~menu.isOpen \/ menu.nextTimer <= MaxTimers

menuRest == <<ambientVars, lbVars>>

\* click on the toggle
ToggleClick ==
  /\ CanClose
  /\ menu' = (IF menu.isOpen THEN closeMenu(menu) ELSE openMenu(menu))
  /\ lastEvt' = (IF menu.isOpen THEN "menu_close" ELSE "menu_open")
  /\ lastArgs' = <<menu.hideTimer, IF menu.hideTimer \in menu.timers THEN 1 ELSE 0>>
  /\ UNCHANGED menuRest

\* document pointerdown; outside: the target is not inside the menu root
\* (a pointer-down on the lightbox stage is one, if the stage is not in the menu)
MenuPointerDown(outside) ==
  /\ CanClose
  /\ menu' = (IF ~menu.isOpen THEN menu
              ELSE IF outside THEN closeMenu(menu)
              ELSE menu)
  /\ lastEvt' = (IF menu.isOpen /\ outside THEN "menu_close" ELSE "menu_ignored")
  /\ lastArgs' = <<>>
  /\ UNCHANGED menuRest

\* click inside the panel; onLink: the target is inside an a[href]
PanelClick(onLink) ==
  /\ CanClose
  /\ menu' = (IF onLink THEN closeMenu(menu) ELSE menu)
  /\ lastEvt' = (IF onLink /\ menu.isOpen THEN "menu_close" ELSE "menu_ignored")
  /\ lastArgs' = <<>>
  /\ UNCHANGED menuRest

\* the hide timer h expires
HideTimerFires(h) ==
  /\ h \in menu.timers
  /\ menu' = hideCallback([menu EXCEPT !.timers = @ \ {h}])
  /\ lastEvt' = "menu_timer"
  /\ lastArgs' = <<h>>
  /\ UNCHANGED menuRest

-----------------------------------------------------------------------------
(* Lightbox: helpers                                                       *)
(*                                                                         *)
(* lbx is a record: the closure variables index, isOpen, lastActive,       *)
(* pointerDown, startX, deltaX, startT, activePointerId, isAnimating; the  *)
(* DOM state the handlers write: src (the tile whose source imgEl shows),  *)
(* hidden (lb.hidden; aria-hidden mirrors it), overflow (the scroller's    *)
(* style.overflow), dragging (imgEl has class is-dragging), transform and  *)
(* opacity (imgEl.style; <<>> is the empty string), focus; and the pending *)
(* callbacks: frames (requestAnimationFrame) and listeners (the once       *)
(* transitionend listeners on imgEl).  transition tells whether the style  *)
(* write of an animateTo frame started a transition of imgEl: it starts    *)
(* none when it writes the transform and opacity the element already has.  *)
(* A handler is an operator from the record to the record it leaves.       *)
(* Opacity is in thousandths (1 = 1000).  A tile's resolved source         *)
(* (data-full, else src) is named by the tile's position; preload() only   *)
(* warms the cache and leaves no state.  The optional prev/next/close      *)
(* buttons are taken to exist.                                             *)

NoElement == -1
NoSrc == -2
CloseBtn == -3
NoPointer == 0

Max(a, b) == IF a > b THEN a ELSE b
Min(a, b) == IF a < b THEN a ELSE b

\* JavaScript's %: the remainder takes the sign of the dividend.
JsRem(a, n) == IF a >= 0 THEN a % n ELSE 0 - ((0 - a) % n)

clamp(v, lo, hi) == Max(lo, Min(hi, v))

\* tiles[k]?.getAttribute(...) || "": no element at a negative position.
getFullSrc(i) ==
  LET k == JsRem(i + tiles, tiles)
  IN IF k >= 0 /\ k < tiles THEN k ELSE NoSrc

\* Mutant: the index is stored as given, without the wrap-around.
setIndex_noWrap(s, nextIndex) ==
  [s EXCEPT !.index = nextIndex,
            !.src = IF getFullSrc(nextIndex) = NoSrc THEN @ ELSE getFullSrc(nextIndex)]

setIndex(s, nextIndex) ==
  LET idx == JsRem(nextIndex + tiles, tiles)
      src == getFullSrc(idx)
  IN [s EXCEPT !.index = idx,
               !.src = IF src = NoSrc THEN @ ELSE src]

\* Mutant: prev steps forward.
prev_forward(s) == setIndex(s, s.index + 1)

prev(s) == setIndex(s, s.index - 1)

next(s) == setIndex(s, s.index + 1)

\* Mutant: the `if (isOpen) return` guard dropped.
open_noGuard(s, i, triggerEl) ==
  [setIndex([s EXCEPT !.isOpen = TRUE,
                      !.lastActive = triggerEl,
                      !.hidden = FALSE,
                      !.overflow = IF scroller THEN "hidden" ELSE @,
                      !.dragging = FALSE,
                      !.transform = <<>>,
                      !.opacity = <<>>], i)
     EXCEPT !.focus = CloseBtn]

open(s, i, triggerEl) ==
  IF s.isOpen THEN s
  ELSE [setIndex([s EXCEPT !.isOpen = TRUE,
                           !.lastActive = triggerEl,
                           !.hidden = FALSE,
                           !.overflow = IF scroller THEN "hidden" ELSE @,
                           !.dragging = FALSE,
                           !.transform = <<>>,
                           !.opacity = <<>>], i)
          EXCEPT !.focus = CloseBtn]

\* Mutant: the scroller's overflow is not restored.
close_keepLock(s) ==
  IF ~s.isOpen THEN s
  ELSE [s EXCEPT !.isOpen = FALSE,
                 !.hidden = TRUE,
                 !.dragging = FALSE,
                 !.transform = <<>>,
                 !.opacity = <<>>,
                 !.focus = IF s.lastActive = NoElement THEN @ ELSE s.lastActive]

close(s) ==
  IF ~s.isOpen THEN s
  ELSE [s EXCEPT !.isOpen = FALSE,
                 !.hidden = TRUE,
                 !.overflow = IF scroller THEN "" ELSE @,
                 !.dragging = FALSE,
                 !.transform = <<>>,
                 !.opacity = <<>>,
                 !.focus = IF s.lastActive = NoElement THEN @ ELSE s.lastActive]

-----------------------------------------------------------------------------
(* Lightbox: swipe *)

\* opacity = 1 - clamp(|dx| / (w * 0.9), 0, 1) * 0.25, in thousandths, rounded down
setDragVisual(s, dx) ==
  LET w == Max(320, innerWidth)
      progress == clamp((Abs(dx) * 10000) \div (w * 9), 0, 1000)
  IN [s EXCEPT !.transform = <<dx>>,
               !.opacity = <<1000 - (progress * 25) \div 100>>]

resetVisual(s) == [s EXCEPT !.transform = <<>>, !.opacity = <<>>]

animateTo(s, dx, opacity, cb) ==
  IF s.isAnimating THEN s
  ELSE [s EXCEPT !.isAnimating = TRUE,
                 !.dragging = FALSE,
                 !.frames = Append(@, [kind |-> "animate", dx |-> dx,
                                       opacity |-> opacity, cb |-> cb])]

\* Math.abs(deltaX) > w * 0.18
distanceOK(dx, w) == Abs(dx) * 100 > w * 18

\* Math.abs(deltaX / elapsed) > 0.65, for elapsed >= 1
velocityOK(dx, elapsed) == Abs(dx) * 100 > 65 * elapsed

\* Mutant: the two thresholds must both be passed.
SwipeCommits_both(dx, w, elapsed) == distanceOK(dx, w) /\ velocityOK(dx, elapsed)

SwipeCommits(dx, w, elapsed) == distanceOK(dx, w) \/ velocityOK(dx, elapsed)

\* Mutant: pointerDown is not cleared before the animation starts.
finishSwipe_keepDown(s, t) ==
  IF ~s.pointerDown THEN s
  ELSE LET w == Max(320, innerWidth)
           elapsed == Max(1, t - s.startT)
           dir == IF s.deltaX < 0 THEN 1 ELSE 0 - 1
           outX == IF dir = 1 THEN 0 - w ELSE w
       IN IF ~SwipeCommits(s.deltaX, w, elapsed)
          THEN animateTo(s, 0, 1000, "reset")
          ELSE animateTo(s, outX, 900, IF dir = 1 THEN "next" ELSE "prev")

finishSwipe(s, t) ==
  IF ~s.pointerDown THEN s
  ELSE LET s1 == [s EXCEPT !.pointerDown = FALSE]
           w == Max(320, innerWidth)
           elapsed == Max(1, t - s.startT)
           dir == IF s.deltaX < 0 THEN 1 ELSE 0 - 1
           outX == IF dir = 1 THEN 0 - w ELSE w
       IN IF ~SwipeCommits(s.deltaX, w, elapsed)
          THEN animateTo(s1, 0, 1000, "reset")
          ELSE animateTo(s1, outX, 900, IF dir = 1 THEN "next" ELSE "prev")

\* `done`, the transitionend listener animateTo registers, for the frame
\* record f of that animateTo call (f.dx is outX = -dir * w).
done(s, f) ==
  LET s1 == [s EXCEPT !.isAnimating = FALSE]
  IN IF f.cb = "reset" THEN resetVisual(s1)
     ELSE [(IF f.cb = "next" THEN next(s1) ELSE prev(s1))
             EXCEPT !.dragging = TRUE,
                    !.transform = <<0 - f.dx>>,
                    !.opacity = <<900>>,
                    !.frames = Append(@, [kind |-> "slideIn", dx |-> 0,
                                          opacity |-> 0, cb |-> "none"])]

\* One frame callback.
runFrame(s, f) ==
  IF f.kind = "animate"
  THEN [s EXCEPT !.transform = <<f.dx>>,
                 !.opacity = <<f.opacity>>,
                 !.transition = @ \/ s.transform # <<f.dx>>
                                  \/ s.opacity # <<f.opacity>>,
                 !.listeners = Append(@, f)]
  ELSE [resetVisual(s) EXCEPT !.dragging = FALSE]

\* The callbacks q, in the order they were registered.
RECURSIVE runFrames(_, _)
runFrames(s, q) == IF q = <<>> THEN s ELSE runFrames(runFrame(s, Head(q)), Tail(q))

RECURSIVE runListeners(_, _)
runListeners(s, q) == IF q = <<>> THEN s ELSE runListeners(done(s, Head(q)), Tail(q))

-----------------------------------------------------------------------------
(* Lightbox: events.  Each leaves navHist to the specification. *)

lbRest == <<ambientVars, lbEnv, menu>>

\* document click on the gallery button of tile i
GalleryClick(i) ==
  /\ i \in 0 .. (tiles - 1)
  /\ lbx' = open(lbx, i, i)
  /\ lastEvt' = (IF lbx.isOpen THEN "open_ignored" ELSE "open")
  /\ lastArgs' = <<i>>
  /\ UNCHANGED <<lbRest, clock, pressed>>

CloseClick ==
  /\ lbx' = close(lbx)
  /\ lastEvt' = (IF lbx.isOpen THEN "close" ELSE "close_ignored")
  /\ lastArgs' = <<>>
  /\ UNCHANGED <<lbRest, clock, pressed>>

PrevClick ==
  /\ lbx' = prev(lbx)
  /\ lastEvt' = "prev"
  /\ lastArgs' = <<>>
  /\ UNCHANGED <<lbRest, clock, pressed>>

NextClick ==
  /\ lbx' = next(lbx)
  /\ lastEvt' = "next"
  /\ lastArgs' = <<>>
  /\ UNCHANGED <<lbRest, clock, pressed>>

\* document keydown: the menu's listener (Escape closes the menu) and the
\* lightbox's both run.
KeyDown(key) ==
  /\ CanClose
  /\ menu' = (IF key = "Escape" THEN closeMenu(menu) ELSE menu)
  /\ lbx' = (IF ~lbx.isOpen THEN lbx
             ELSE IF key = "Escape" THEN close(lbx)
             ELSE IF key = "ArrowLeft" THEN prev(lbx)
             ELSE IF key = "ArrowRight" THEN next(lbx)
             ELSE lbx)
  /\ lastEvt' = (IF ~lbx.isOpen THEN "key_ignored"
                 ELSE IF key = "Escape" THEN "close"
                 ELSE IF key = "ArrowLeft" THEN "prev"
                 ELSE IF key = "ArrowRight" THEN "next"
                 ELSE "key_ignored")
  /\ lastArgs' = <<>>
  /\ UNCHANGED <<ambientVars, lbEnv, clock, pressed>>

\* Mutant: the isAnimating half of the pointerdown guard dropped.
PointerDown_noAnimGuard(pid, x) ==
  /\ pid \notin pressed
  /\ pressed' = pressed \cup {pid}
  /\ lbx' = (IF ~lbx.isOpen THEN lbx
             ELSE [lbx EXCEPT !.pointerDown = TRUE,
                              !.activePointerId = pid,
                              !.startX = x,
                              !.deltaX = 0,
                              !.startT = clock,
                              !.dragging = TRUE])
  /\ lastEvt' = (IF ~lbx.isOpen THEN "pointerdown_ignored" ELSE "pointerdown")
  /\ lastArgs' = <<pid, x>>
  /\ UNCHANGED <<lbRest, clock>>

\* setPointerCapture keeps the pointer's later events on the stage; it leaves
\* no other state.  startT is performance.now() at the event.
PointerDown(pid, x) ==
  /\ pid \notin pressed
  /\ pressed' = pressed \cup {pid}
  /\ lbx' = (IF ~lbx.isOpen \/ lbx.isAnimating THEN lbx
             ELSE [lbx EXCEPT !.pointerDown = TRUE,
                              !.activePointerId = pid,
                              !.startX = x,
                              !.deltaX = 0,
                              !.startT = clock,
                              !.dragging = TRUE])
  /\ lastEvt' = (IF ~lbx.isOpen \/ lbx.isAnimating
                 THEN "pointerdown_ignored" ELSE "pointerdown")
  /\ lastArgs' = <<pid, x>>
  /\ UNCHANGED <<lbRest, clock>>

\* Mutant: the pointer id is not compared with activePointerId.
PointerMove_anyPointer(pid, x) ==
  /\ lbx' = (IF ~lbx.pointerDown THEN lbx
             ELSE setDragVisual([lbx EXCEPT !.deltaX = x - lbx.startX],
                                x - lbx.startX))
  /\ lastEvt' = (IF ~lbx.pointerDown THEN "pointermove_ignored" ELSE "pointermove")
  /\ lastArgs' = <<pid, x>>
  /\ UNCHANGED <<lbRest, clock, pressed>>

PointerMove(pid, x) ==
  /\ lbx' = (IF ~lbx.pointerDown \/ pid # lbx.activePointerId THEN lbx
             ELSE setDragVisual([lbx EXCEPT !.deltaX = x - lbx.startX],
                                x - lbx.startX))
  /\ lastEvt' = (IF ~lbx.pointerDown \/ pid # lbx.activePointerId
                 THEN "pointermove_ignored" ELSE "pointermove")
  /\ lastArgs' = <<pid, x>>
  /\ UNCHANGED <<lbRest, clock, pressed>>

\* What a finishSwipe call that took s to t did.
SwipeOutcome(s, t) ==
  IF ~s.pointerDown THEN "swipe_ignored"
  ELSE IF Len(t.frames) = Len(s.frames) THEN "swipe_dropped"
  ELSE IF t.frames[Len(t.frames)].cb = "reset" THEN "swipe_cancel"
  ELSE "swipe_commit"

\* pointerup and pointercancel both run finishSwipe; dt is the time that
\* passed since the previous pointer event.
PointerUp(pid, dt) ==
  /\ pid \in pressed
  /\ (dt = 0 \/ clock + dt <= MaxClock)
  /\ clock' = clock + dt
  /\ pressed' = pressed \ {pid}
  /\ lbx' = finishSwipe(lbx, clock + dt)
  /\ lastEvt' = SwipeOutcome(lbx, lbx')
  /\ lastArgs' = <<pid, innerWidth, lbx.deltaX, (clock + dt) - lbx.startT>>
  /\ UNCHANGED lbRest

PointerCancel(pid, dt) ==
  /\ pid \in pressed
  /\ (dt = 0 \/ clock + dt <= MaxClock)
  /\ clock' = clock + dt
  /\ pressed' = pressed \ {pid}
  /\ lbx' = finishSwipe(lbx, clock + dt)
  /\ lastEvt' = SwipeOutcome(lbx, lbx')
  /\ lastArgs' = <<pid, innerWidth, lbx.deltaX, (clock + dt) - lbx.startT>>
  /\ UNCHANGED lbRest

\* An animation frame: every pending lightbox callback runs, in order.
AnimationFrame ==
  /\ lbx.frames # <<>>
  /\ lbx' = runFrames([lbx EXCEPT !.frames = <<>>], lbx.frames)
  /\ lastEvt' = "frame"
  /\ lastArgs' = <<>>
  /\ UNCHANGED <<lbRest, clock, pressed>>

\* transitionend on imgEl: every registered once-listener runs and is removed.
\* (Any transition of imgEl that ends delivers it, not only the one the
\* listener was registered for.)
TransitionEnd ==
  /\ lbx.listeners # <<>>
  /\ lbx' = runListeners([lbx EXCEPT !.listeners = <<>>, !.transition = FALSE],
                          lbx.listeners)
  /\ lastEvt' = "transitionend"
  /\ lastArgs' = <<>>
  /\ UNCHANGED <<lbRest, clock, pressed>>

\* setIndex applied to an arbitrary argument (no handler passes one outside
\* -1 .. tiles): the function on its own.
NavigateTo(i) ==
  /\ lbx' = setIndex(lbx, i)
  /\ lastEvt' = "setIndex"
  /\ lastArgs' = <<i>>
  /\ UNCHANGED <<lbRest, clock, pressed>>

-----------------------------------------------------------------------------
(* State after the script has run: start() was called once if .lightfield exists *)

AmbientBooted ==
  /\ lastFrame = 0 /\ lastTurb = 0
  /\ lastX = NaN /\ lastY = NaN /\ lastR = NaN
  /\ lfStyle = [x |-> NaN, y |-> NaN, r |-> NaN]
  /\ baseFrequency = <<>>
  /\ now = 0
  /\ rafId = (IF lightfield THEN 1 ELSE Null)
  /\ rafPending = (IF lightfield THEN {1} ELSE {})
  /\ nextHandle = (IF lightfield THEN 2 ELSE 1)
  /\ computed = <<>>
  /\ prevExec = NoTime
  /\ gap = NoTime
  /\ gapAcrossStart = FALSE
  /\ restarted = lightfield
  /\ lastCall = (IF lightfield THEN "start" ELSE "none")
  /\ lifecycle = "show"

\* The lightbox before any event: closed, nothing pending.
LbIdleRec ==
  [index |-> 0, isOpen |-> FALSE, lastActive |-> NoElement,
   pointerDown |-> FALSE, startX |-> 0, deltaX |-> 0, startT |-> 0,
   activePointerId |-> NoPointer, isAnimating |-> FALSE,
   src |-> NoSrc, hidden |-> TRUE, overflow |-> "", dragging |-> FALSE,
   transform |-> <<>>, opacity |-> <<>>, focus |-> NoElement,
   transition |-> FALSE, frames |-> <<>>, listeners |-> <<>>]

NavHistZero == [openedAt |-> 0, nexts |-> 0, prevs |-> 0]

\* The menu after `setState(false); panel.hidden = true`.
MenuClosedRec ==
  [isOpen |-> FALSE, hideTimer |-> Null, panelHidden |-> TRUE,
   dataOpen |-> "false", ariaExpanded |-> "false", ariaHidden |-> "true",
   menuOpenClass |-> FALSE, focus |-> "none", timers |-> {}, nextTimer |-> 1]

LbIdle ==
  /\ tiles = 1 /\ scroller = FALSE /\ innerWidth = 1000
  /\ menu = MenuClosedRec
  /\ lbx = LbIdleRec
  /\ clock = 0 /\ pressed = {}
  /\ navHist = NavHistZero

InitAmbient ==
  /\ LbIdle
  /\ lastEvt = "init" /\ lastArgs = <<>>
  /\ prefersReducedMotion \in BOOLEAN
  /\ isMobile \in BOOLEAN
  /\ isIOSSafari \in BOOLEAN
  /\ hardwareConcurrency \in HwSamples
  /\ lightfield \in BOOLEAN
  /\ turbulence \in BOOLEAN
  /\ hidden \in BOOLEAN
  /\ AmbientBooted

NextAmbient ==
  \/ \E h \in rafPending, dt \in FrameSteps : Tick(h, dt, 0, 0, 0)
  \/ VisibilityChange
  \/ PageHide
  \/ PageShow

SpecAmbient == InitAmbient /\ [][NextAmbient]_vars

\* The write-suppression runs: one capability class, every sample position.
InitWrite ==
  /\ LbIdle
  /\ lastEvt = "init" /\ lastArgs = <<>>
  /\ prefersReducedMotion = FALSE
  /\ isMobile = FALSE
  /\ isIOSSafari = FALSE
  /\ hardwareConcurrency = 8
  /\ lightfield = TRUE
  /\ turbulence = TRUE
  /\ hidden = FALSE
  /\ AmbientBooted

NextWrite ==
  \/ \E h \in rafPending, x \in PosSamples, y \in PosSamples, r \in RotSamples :
       Tick(h, WriteStep, x, y, r)
  \/ VisibilityChange

SpecWrite == InitWrite /\ [][NextWrite]_vars

-----------------------------------------------------------------------------
(* Ambient driver: claims *)

StartCalled == PageShow \/ (VisibilityChange /\ ~hidden')
StopCalled == PageHide \/ (VisibilityChange /\ hidden')

\* C1: at most one frame callback is pending in every reachable state; a
\* start() while a loop is running schedules nothing and a stop() while no
\* loop is running changes nothing.
C1_OneLoop ==
  /\ [](Cardinality(rafPending) <= 1)
  /\ [][/\ (StartCalled /\ rafId # Null) =>
              UNCHANGED <<rafId, rafPending, nextHandle, lastFrame, lastTurb>>
        /\ (StopCalled /\ rafId = Null) =>
              UNCHANGED <<rafId, rafPending, nextHandle, lastFrame, lastTurb>>]_vars

C1_Witness ==
  /\ lastCall = "start_noop"
  /\ lastEvt = "pageshow"
  /\ Cardinality(rafPending) = 1
  /\ nextHandle > 3

\* C2 as claimed: no frame callback is pending while the document is hidden,
\* and after a visibilitychange to visible one is pending.
C2_Claim ==
  /\ hidden => rafPending = {}
  /\ (lastEvt = "visibilitychange" /\ ~hidden) => rafPending # {}

\* C2 amended: since the latest lifecycle event, the loop is stopped if that
\* event was a hide (visibilitychange to hidden, pagehide) and exactly one
\* callback is pending if it was a show (initial start, visibilitychange to
\* visible, pageshow) -- whatever document.hidden is.
C2_Amended ==
  /\ lifecycle = "hide" => (rafPending = {} /\ rafId = Null)
  /\ (lifecycle = "show" /\ lightfield) => (rafId # Null /\ rafPending = {rafId})

C2_Witness ==
  /\ lastEvt = "visibilitychange"
  /\ ~hidden
  /\ lastCall = "start"
  /\ prevExec # NoTime
  /\ rafPending = {rafId}

\* C3 as claimed: any two consecutive executed updates are at least
\* FRAME_MIN_MS apart, also across a stop() followed by a start().
C3_Claim == gap # NoTime => gap >= FRAME_MIN_MS

\* C3 amended: two consecutive executed updates with no start() between them
\* are at least FRAME_MIN_MS apart, and every executed update has a timestamp
\* of at least FRAME_MIN_MS (start() resets the reference to 0).
C3_Amended ==
  /\ (gap # NoTime /\ ~gapAcrossStart) => gap >= FRAME_MIN_MS
  /\ prevExec # NoTime => prevExec >= FRAME_MIN_MS

C3_Witness == gap = FRAME_MIN_MS /\ ~gapAcrossStart /\ lastEvt = "tick_run"

Executed == lastEvt' = "tick_run" /\ now' # now

\* C4 as claimed: the committed value is unchanged when two consecutive
\* computed values differ by at most the epsilon, and updated otherwise.
C4_Claim ==
  [][(Executed /\ computed # <<>>) =>
       /\ IF Abs(computed'[1] - computed[1]) <= POS_EPS
          THEN lastX' = lastX ELSE lastX' = computed'[1]
       /\ IF Abs(computed'[2] - computed[2]) <= POS_EPS
          THEN lastY' = lastY ELSE lastY' = computed'[2]
       /\ IF Abs(computed'[3] - computed[3]) <= ROT_EPS
          THEN lastR' = lastR ELSE lastR' = computed'[3]]_vars

\* C4 amended: the committed value is unchanged when the computed value is
\* within the epsilon of the last COMMITTED value, and is set to the computed
\* value otherwise (always on the first update, when nothing was committed).
C4_Amended ==
  [][Executed =>
       /\ IF lastX # NaN /\ Abs(computed'[1] - lastX) <= POS_EPS
          THEN lastX' = lastX ELSE lastX' = computed'[1]
       /\ IF lastY # NaN /\ Abs(computed'[2] - lastY) <= POS_EPS
          THEN lastY' = lastY ELSE lastY' = computed'[2]
       /\ IF lastR # NaN /\ Abs(computed'[3] - lastR) <= ROT_EPS
          THEN lastR' = lastR ELSE lastR' = computed'[3]
       /\ lfStyle' = [x |-> lastX', y |-> lastY', r |-> lastR']]_vars

C4_Witness ==
  /\ lastEvt = "tick_run"
  /\ lastX # NaN
  /\ Abs(computed[1] - lastX) = POS_EPS
  /\ Abs(computed[3] - lastR) = ROT_EPS
  /\ computed[2] # lastY

highFidelityMode == ~(prefersReducedMotion \/ isMobile \/ isIOSSafari \/ lowCoreDevice)

\* C5: (AMP_X, AMP_Y) is (8,6) under reduced motion, else (24,16) on a compact
\* viewport, else (56,40); the turbulence attribute is written only if
\* highFidelityMode holds and the target exists.
C5_Gating ==
  /\ prefersReducedMotion => (AMP_X = 8 /\ AMP_Y = 6)
  /\ (~prefersReducedMotion /\ isMobile) => (AMP_X = 24 /\ AMP_Y = 16)
  /\ (~prefersReducedMotion /\ ~isMobile) => (AMP_X = 56 /\ AMP_Y = 40)
  /\ baseFrequency # <<>> => (highFidelityMode /\ turbulence)
  /\ lastTurb # 0 => (highFidelityMode /\ turbulence)

C5_Witness == baseFrequency # <<>> /\ highFidelityMode /\ turbulence /\ AMP_X = 56

-----------------------------------------------------------------------------
(* Lightbox: specifications *)

\* The ambient driver as it stands while the lightbox runs.
AmbientIdle ==
  /\ menu = MenuClosedRec
  /\ prefersReducedMotion = FALSE
  /\ isMobile = FALSE
  /\ isIOSSafari = FALSE
  /\ hardwareConcurrency = 8
  /\ lightfield = TRUE
  /\ turbulence = TRUE
  /\ hidden = FALSE
  /\ AmbientBooted

InitLightbox ==
  /\ AmbientIdle
  /\ tiles \in 1 .. MaxTiles
  /\ scroller = TRUE
  /\ innerWidth = 1000
  /\ lbx = LbIdleRec
  /\ clock = 0 /\ pressed = {}
  /\ navHist = NavHistZero
  /\ lastEvt = "init" /\ lastArgs = <<>>

NextLightbox ==
  \/ \E i \in 0 .. (tiles - 1) : GalleryClick(i) /\ UNCHANGED navHist
  \/ CloseClick /\ UNCHANGED navHist
  \/ PrevClick /\ UNCHANGED navHist
  \/ NextClick /\ UNCHANGED navHist
  \/ \E key \in Keys : KeyDown(key) /\ UNCHANGED navHist
  \/ \E pid \in Pointers, x \in Xs : PointerDown(pid, x) /\ UNCHANGED navHist
  \/ \E pid \in Pointers, x \in Xs : PointerMove(pid, x) /\ UNCHANGED navHist
  \/ \E pid \in Pointers, dt \in ClockSteps : PointerUp(pid, dt) /\ UNCHANGED navHist
  \/ \E pid \in Pointers, dt \in ClockSteps : PointerCancel(pid, dt) /\ UNCHANGED navHist
  \/ AnimationFrame /\ UNCHANGED navHist
  \/ TransitionEnd /\ UNCHANGED navHist

SpecLightbox == InitLightbox /\ [][NextLightbox]_vars

\* Navigation only (open, close, prev, next, keys), counting the calls.
InitNav ==
  /\ AmbientIdle
  /\ tiles \in 1 .. MaxNavTiles
  /\ scroller \in BOOLEAN
  /\ innerWidth = 1000
  /\ lbx = LbIdleRec
  /\ clock = 0 /\ pressed = {}
  /\ navHist = NavHistZero
  /\ lastEvt = "init" /\ lastArgs = <<>>

CountNext == navHist.nexts < MaxCalls /\ navHist' = [navHist EXCEPT !.nexts = @ + 1]
CountPrev == navHist.prevs < MaxCalls /\ navHist' = [navHist EXCEPT !.prevs = @ + 1]

NextNav ==
  \/ \E i \in 0 .. (tiles - 1) :
       /\ GalleryClick(i)
       /\ navHist' = (IF lbx.isOpen THEN navHist
                      ELSE [openedAt |-> i, nexts |-> 0, prevs |-> 0])
  \/ CloseClick /\ UNCHANGED navHist
  \/ PrevClick /\ CountPrev
  \/ NextClick /\ CountNext
  \/ \E key \in Keys :
       /\ KeyDown(key)
       /\ IF lbx.isOpen /\ key = "ArrowLeft" THEN CountPrev
          ELSE IF lbx.isOpen /\ key = "ArrowRight" THEN CountNext
          ELSE UNCHANGED navHist

SpecNav == InitNav /\ [][NextNav]_vars

\* setIndex on its own, over arguments no handler passes.
NextSetIndex == \E i \in (0 - MaxArg) .. MaxArg : NavigateTo(i) /\ UNCHANGED navHist

SpecSetIndex == InitNav /\ [][NextSetIndex]_vars

\* A drag about to be released: opened on tile 0, pointer 1 down at time 0,
\* moved by dx, `elapsed` ms ago.
DragRec(dx) ==
  LET opened == open(LbIdleRec, 0, 0)
      down == [opened EXCEPT !.pointerDown = TRUE,
                             !.activePointerId = 1,
                             !.startX = IF dx < 0 THEN 0 - dx ELSE 0,
                             !.deltaX = 0,
                             !.startT = 0,
                             !.dragging = TRUE]
  IN setDragVisual([down EXCEPT !.deltaX = dx], dx)

InitSwipe ==
  /\ AmbientIdle
  /\ tiles = MaxTiles
  /\ scroller = TRUE
  /\ innerWidth \in SwipeWidths
  /\ \E dx \in SwipeDeltas : lbx = DragRec(dx)
  /\ clock \in SwipeTimes
  /\ pressed = {1}
  /\ navHist = NavHistZero
  /\ lastEvt = "pointermove" /\ lastArgs = <<>>

NextSwipe ==
  \/ PointerUp(1, 0) /\ UNCHANGED navHist
  \/ PointerCancel(1, 0) /\ UNCHANGED navHist
  \/ AnimationFrame /\ UNCHANGED navHist
  \/ TransitionEnd /\ UNCHANGED navHist

SpecSwipe == InitSwipe /\ [][NextSwipe]_vars

\* Swipes with navigation interleaved.  The lightbox is open on tile 0; one
\* pointer drags; prev/next clicks and arrow keys may arrive at any time.
\* Here navHist records the latest committed release: the index and deltaX
\* at the release, and whether its slide-out is still to be notified
\* ("inFlight") or was notified by the latest transitionend ("completed").
InitCommit ==
  /\ AmbientIdle
  /\ tiles \in 1 .. MaxNavTiles
  /\ scroller = TRUE
  /\ innerWidth = 1000
  /\ lbx = open(LbIdleRec, 0, 0)
  /\ clock = 0 /\ pressed = {}
  /\ navHist = [releasedAt |-> 0, dx |-> 0, phase |-> "none"]
  /\ lastEvt = "open" /\ lastArgs = <<0>>

RecordRelease ==
  navHist' = (IF lastEvt' = "swipe_commit"
              THEN [releasedAt |-> lbx.index, dx |-> lbx.deltaX, phase |-> "inFlight"]
              ELSE navHist)

NextCommit ==
  \/ PrevClick /\ UNCHANGED navHist
  \/ NextClick /\ UNCHANGED navHist
  \/ \E key \in {"ArrowLeft", "ArrowRight"} : KeyDown(key) /\ UNCHANGED navHist
  \/ \E x \in CommitXs : PointerDown(1, x) /\ UNCHANGED navHist
  \/ \E x \in CommitXs : PointerMove(1, x) /\ UNCHANGED navHist
  \/ PointerUp(1, 0) /\ RecordRelease
  \/ PointerCancel(1, 0) /\ RecordRelease
  \/ AnimationFrame /\ UNCHANGED navHist
  \/ /\ TransitionEnd
     /\ navHist' = [navHist EXCEPT
                      !.phase = IF @ = "inFlight" THEN "completed" ELSE "none"]

SpecCommit == InitCommit /\ [][NextCommit]_vars

\* One pointer's gestures with open, close and the keys interleaved, under
\* the scheduling the browser guarantees: a requested animation frame runs,
\* and a transition that started delivers its transitionend.
InitReturn ==
  /\ AmbientIdle
  /\ tiles \in 1 .. MaxTiles
  /\ scroller = TRUE
  /\ innerWidth = 1000
  /\ lbx = LbIdleRec
  /\ clock = 0 /\ pressed = {}
  /\ navHist = NavHistZero
  /\ lastEvt = "init" /\ lastArgs = <<>>

FrameRuns == AnimationFrame /\ UNCHANGED navHist

StartedTransitionEnds == lbx.transition /\ TransitionEnd /\ UNCHANGED navHist

NextReturn ==
  \/ GalleryClick(0) /\ UNCHANGED navHist
  \/ CloseClick /\ UNCHANGED navHist
  \/ \E key \in Keys : KeyDown(key) /\ UNCHANGED navHist
  \/ \E x \in Xs : PointerDown(1, x) /\ UNCHANGED navHist
  \/ \E x \in Xs : PointerMove(1, x) /\ UNCHANGED navHist
  \/ PointerUp(1, 0) /\ UNCHANGED navHist
  \/ PointerCancel(1, 0) /\ UNCHANGED navHist
  \/ FrameRuns
  \/ TransitionEnd /\ UNCHANGED navHist

SpecReturn ==
  /\ InitReturn
  /\ [][NextReturn]_vars
  /\ WF_vars(FrameRuns)
  /\ WF_vars(StartedTransitionEnds)

-----------------------------------------------------------------------------
(* Menu: specification *)

\* The menu's events, with the lightbox (one tile) opened and closed in
\* between: a keydown reaches the listeners of both.
InitMenu ==
  /\ AmbientIdle
  /\ LbIdle
  /\ lastEvt = "init" /\ lastArgs = <<>>

NextMenu ==
  \/ ToggleClick
  \/ \E key \in Keys : KeyDown(key) /\ UNCHANGED navHist
  \/ \E outside \in BOOLEAN : MenuPointerDown(outside)
  \/ \E onLink \in BOOLEAN : PanelClick(onLink)
  \/ \E h \in menu.timers : HideTimerFires(h)
  \/ GalleryClick(0) /\ UNCHANGED navHist
  \/ CloseClick /\ UNCHANGED navHist

SpecMenu == InitMenu /\ [][NextMenu]_vars

-----------------------------------------------------------------------------
(* Lightbox: claims *)

Mod(a, n) == ((a % n) + n) % n

\* C6: with N >= 1 items, currentIndex is an integer in [0, N) in every
\* reachable state of the lightbox.
C6_IndexInRange == lbx.index \in 0 .. (tiles - 1)

\* a committed swipe wrapped the index round to 0
C6_Witness ==
  /\ lastEvt = "transitionend"
  /\ tiles = MaxTiles
  /\ lbx.index = 0
  /\ lbx.lastActive = tiles - 1
  /\ lbx.frames # <<>>

\* C7 as claimed: navigateTo(index) leaves currentIndex = index mod N, for
\* every N >= 1 and every integer index, also below -N and above 2N.
C7_Claim == lastEvt = "setIndex" => lbx.index = Mod(lastArgs[1], tiles)

\* C8: after open(i) and then k next() and m prev() calls in any order,
\* currentIndex = (i + k - m) mod N.
C8_PrevNext ==
  lbx.index = Mod(navHist.openedAt + navHist.nexts - navHist.prevs, tiles)

C8_Witness ==
  /\ tiles = 5
  /\ lbx.isOpen
  /\ navHist = [openedAt |-> 2, nexts |-> 1, prevs |-> 2]
  /\ lbx.index = 1
  /\ lastEvt = "prev"

\* C9: open() while open leaves isOpen, currentIndex, the restore-focus
\* target and the scroll lock (and all other lightbox state) unchanged;
\* close() while closed leaves all lightbox state unchanged.
C9_Idempotent ==
  [][/\ (lbx.isOpen /\ \E i \in 0 .. (tiles - 1) : GalleryClick(i)) => lbx' = lbx
     /\ (~lbx.isOpen /\ (CloseClick \/ KeyDown("Escape"))) => lbx' = lbx]_vars

C9_Witness ==
  /\ lastEvt = "open_ignored"
  /\ lbx.isOpen
  /\ lastArgs[1] # lbx.index
  /\ lastArgs[1] # lbx.lastActive

Released == lastEvt \in {"swipe_commit", "swipe_cancel", "swipe_dropped"}

\* C10 as claimed: a completed drag commits iff |dx| > 0.18 * W or
\* |dx / elapsed| > 0.65, W the viewport width, and cancels otherwise.
\* (lastArgs = <<pointer, W, dx, elapsed>>; an elapsed time of 0 is read as
\* an unbounded velocity.)
C10_Claim ==
  Released =>
    /\ lastEvt \in {"swipe_commit", "swipe_cancel"}
    /\ lastEvt = "swipe_commit" <=>
         \/ Abs(lastArgs[3]) * 100 > 18 * lastArgs[2]
         \/ Abs(lastArgs[3]) * 100 > 65 * lastArgs[4]

\* C10 amended: with w = max(320, W) and e = max(1, elapsed), a completed
\* drag commits iff |dx| > 0.18 * w or |dx| / e > 0.65, and cancels otherwise.
C10_Amended ==
  Released =>
    /\ lastEvt \in {"swipe_commit", "swipe_cancel"}
    /\ lastEvt = "swipe_commit" <=>
         \/ Abs(lastArgs[3]) * 100 > 18 * Max(320, lastArgs[2])
         \/ Abs(lastArgs[3]) * 100 > 65 * Max(1, lastArgs[4])

C10_Witness ==
  /\ lastEvt = "swipe_commit"
  /\ lastArgs = <<1, 1000, 100, 151>>
  /\ lbx.isAnimating

\* The latest event completed a committed swipe: its slide-out was notified.
CommitCompleted == lastEvt = "transitionend" /\ navHist.phase = "completed"

\* C11 as claimed: once the commit sequence has completed, currentIndex is
\* its value at the release plus 1 (mod N) for a committed drag with negative
\* dx, and minus 1 (mod N) for one with positive dx.
C11_Claim ==
  CommitCompleted =>
    lbx.index = Mod(navHist.releasedAt + (IF navHist.dx < 0 THEN 1 ELSE 0 - 1), tiles)

\* The drag session: the closure variables a pointerdown sets.
Session(s) == <<s.pointerDown, s.activePointerId, s.startX, s.deltaX, s.startT>>

\* C12: in every reachable state where isAnimating is true, a pointer-down
\* on the stage starts no drag session: pointerDown, activePointerId, startX,
\* deltaX and startT (and the rest of the lightbox state) are unchanged.
C12_NoDragWhileAnimating ==
  [][(lbx.isAnimating /\ \E pid \in Pointers, x \in Xs : PointerDown(pid, x)) =>
       /\ Session(lbx') = Session(lbx)
       /\ lbx' = lbx]_vars

\* a pointer-down arrived on the open lightbox during an animation
C12_Witness ==
  /\ lastEvt = "pointerdown_ignored"
  /\ lbx.isOpen
  /\ lbx.isAnimating
  /\ lastArgs[2] # lbx.startX

\* C13 as claimed: a pointer-down that arrives while a drag session is active
\* is ignored: the session's pointer id, startX, deltaX and startT are
\* unchanged.
C13_Claim ==
  [][(lbx.pointerDown /\ \E pid \in Pointers, x \in Xs : PointerDown(pid, x)) =>
       /\ lbx'.activePointerId = lbx.activePointerId
       /\ lbx'.startX = lbx.startX
       /\ lbx'.deltaX = lbx.deltaX
       /\ lbx'.startT = lbx.startT]_vars

\* C14: while a drag session is active, a pointer-move whose pointer id
\* differs from the session's alters neither deltaX nor any other lightbox
\* state; with no active session a pointer-move changes nothing.
C14_MoveIsolation ==
  [][\A pid \in Pointers, x \in Xs :
       (PointerMove(pid, x) /\ (~lbx.pointerDown \/ pid # lbx.activePointerId)) =>
         lbx' = lbx]_vars

\* another pointer moved during a drag, to a place that would have changed deltaX
C14_Witness ==
  /\ lastEvt = "pointermove_ignored"
  /\ lbx.pointerDown
  /\ lastArgs[1] # lbx.activePointerId
  /\ lastArgs[2] - lbx.startX # lbx.deltaX

\* C15 as claimed: while a drag session is active, a pointer-up or
\* pointer-cancel from a pointer other than the session's is ignored: the
\* session stays active and no commit or cancel animation starts.
C15_Claim ==
  [][\A pid \in Pointers, dt \in ClockSteps :
       (/\ PointerUp(pid, dt) \/ PointerCancel(pid, dt)
        /\ lbx.pointerDown
        /\ pid # lbx.activePointerId) =>
         /\ lbx'.pointerDown
         /\ Session(lbx') = Session(lbx)
         /\ ~lbx'.isAnimating
         /\ lbx'.frames = lbx.frames]_vars

\* C16 as claimed: in every reachable state where isAnimating is true, an
\* ArrowLeft/ArrowRight key or a prev/next button click leaves currentIndex
\* and the displayed image unchanged.
C16_Claim ==
  [][(/\ lbx.isAnimating
      /\ \/ PrevClick
         \/ NextClick
         \/ KeyDown("ArrowLeft")
         \/ KeyDown("ArrowRight")) =>
       /\ lbx'.index = lbx.index
       /\ lbx'.src = lbx.src]_vars

\* The slide-in frame callback is scheduled.
SlideInScheduled(s) == \E k \in 1 .. Len(s.frames) : s.frames[k].kind = "slideIn"

\* C17 as claimed: for a committed swipe, currentIndex does not change
\* between the pointer release and the slide-out's completion notification;
\* the notification changes it by exactly one step in the swipe's direction
\* and schedules the slide-in after that change.
C17_Claim ==
  [][navHist.phase = "inFlight" =>
       IF lastEvt' = "transitionend"
       THEN /\ lbx'.index =
                 Mod(lbx.index + (IF navHist.dx < 0 THEN 1 ELSE 0 - 1), tiles)
            /\ ~SlideInScheduled(lbx)
            /\ SlideInScheduled(lbx')
       ELSE lbx'.index = lbx.index]_vars

Idle(s) == ~s.pointerDown /\ ~s.isAnimating

\* C18 as claimed: every drag session ended by pointer-up or pointer-cancel
\* (commit or cancel) is eventually followed by the Idle state, given that a
\* scheduled frame callback runs and each started transition delivers its
\* completion notification.
C18_Claim == (lastEvt \in {"swipe_commit", "swipe_cancel"}) ~> Idle(lbx)

\* C19: when the scroll container exists, in every state reachable by open,
\* close, keyboard, button and pointer events its overflow is locked
\* ("hidden") if and only if the lightbox isOpen.
C19_ScrollLock == scroller => (lbx.overflow = "hidden" <=> lbx.isOpen)

\* closed in the middle of a swipe animation: the lock is released
C19_Witness ==
  /\ scroller
  /\ lastEvt = "close"
  /\ ~lbx.isOpen
  /\ lbx.overflow = ""
  /\ lbx.isAnimating

\* C20: pointerDown and isAnimating are never both set; so animateTo's early
\* return on isAnimating is never taken from finishSwipe: no completed drag
\* is dropped without a commit or cancel animation.
C20_FlagsExclusive ==
  /\ ~(lbx.pointerDown /\ lbx.isAnimating)
  /\ lastEvt # "swipe_dropped"

\* a drag was released into its animation while another pointer is still down
C20_Witness ==
  /\ lastEvt \in {"swipe_commit", "swipe_cancel"}
  /\ lbx.isAnimating
  /\ ~lbx.pointerDown
  /\ pressed # {}
  /\ lbx.frames # <<>>

\* C21 as claimed: in every reachable state where isOpen is false no drag
\* session is active, and no event that leaves the lightbox closed (pointer
\* move/up/cancel, prev/next click, animation callback, keydown) changes
\* currentIndex or the displayed image.
C21_Claim ==
  /\ [](~lbx.isOpen => ~lbx.pointerDown)
  /\ [][(~lbx.isOpen /\ ~lbx'.isOpen) =>
          /\ lbx'.index = lbx.index
          /\ lbx'.src = lbx.src]_vars

-----------------------------------------------------------------------------
(* Menu: claims *)

\* C22: under every interleaving of toggle clicks, Escape, outside
\* pointer-downs, panel link clicks and the hide-timer callback: whenever the
\* menu isOpen the panel is not hidden, at most one hide timer is pending,
\* and aria-expanded, data-open and the menu-open class agree with isOpen.
C22_MenuConsistent ==
  /\ menu.isOpen => ~menu.panelHidden
  /\ Cardinality(menu.timers) <= 1
  /\ menu.ariaExpanded = (IF menu.isOpen THEN "true" ELSE "false")
  /\ menu.dataOpen = (IF menu.isOpen THEN "true" ELSE "false")
  /\ menu.menuOpenClass = menu.isOpen

\* the menu was reopened while the hide timer of the previous close was pending
C22_Witness ==
  /\ lastEvt = "menu_open"
  /\ lastArgs[1] # Null
  /\ lastArgs[2] = 1
  /\ menu.isOpen
  /\ ~menu.panelHidden
  /\ menu.timers = {}

====
